---- MODULE Spec2Model ----
(***************************************************************************)
(* Workflow execution engine of ai-workflow-builder: graph validation,     *)
(* cycle detection, topological ordering, single-node execution and the    *)
(* full-workflow run of WorkflowExecutionService.                          *)
(***************************************************************************)
EXTENDS Integers, Sequences, FiniteSets, TLC

\* ------------------------------------------------------------------ bounds
\* Largest number of nodes of a graph handed to the pure graph functions.
MaxNodes == 3
\* Largest number of connections of a graph.
MaxConns == 3

\* The calls of a subscribed listener that are followed.
MaxNotifications == 8

\* The registrations this.listeners holds at most.
MaxListeners == 2

\* Node ids in the order in which nodes are added to a workflow.
AllIds == <<"n1", "n2", "n3", "n4", "n5", "n6">>

\* Node ids a connection may name.
IdUniverse == {AllIds[k] : k \in 1..MaxNodes}

\* ------------------------------------------------------- sequence helpers
Range(s) == {s[k] : k \in DOMAIN s}

Contains(s, x) == \E k \in DOMAIN s : s[k] = x

RECURSIVE SelectIdx(_, _, _)
\* Indices k >= from of s, in order, kept as a sequence of the elements.
SelectIdx(s, P(_), from) ==
    IF from > Len(s) THEN <<>>
    ELSE IF P(s[from]) THEN <<s[from]>> \o SelectIdx(s, P, from + 1)
         ELSE SelectIdx(s, P, from + 1)

Filter(s, P(_)) == SelectIdx(s, P, 1)

IndexOf(s, x) == IF Contains(s, x) THEN CHOOSE k \in DOMAIN s : s[k] = x /\ \A j \in 1..(k - 1) : s[j] # x
                 ELSE 0

\* ------------------------------------------------------------ graph model
NodeTypes == {"userInput", "generate", "output", "addAssets"}

\* config.title given to a node of each type by addNode.
DefaultTitle(type) ==
    CASE type = "userInput" -> "User Input"
      [] type = "generate"  -> "Generate"
      [] type = "output"    -> "Output"
      [] type = "addAssets" -> "Add Assets"

\* The value of an absent result field.
Undefined == <<"undefined">>

NodeIdsOf(nodes) == [k \in DOMAIN nodes |-> nodes[k].id]

HasNode(nodes, id) == \E k \in DOMAIN nodes : nodes[k].id = id

\* nodes.find(n => n.id === id); only used where HasNode holds.
FindNode(nodes, id) == nodes[CHOOSE k \in DOMAIN nodes : nodes[k].id = id /\ \A j \in 1..(k - 1) : nodes[j].id # id]

\* ------------------------------------------------- getTopologicalOrder
\* adjacencyList.get(id): targets of the connections leaving id, in
\* connection order; only node ids are keys of the map.
Targets(connections, id) ==
    LET out == Filter(connections, LAMBDA c : c.sourceNodeId = id)
    IN  [k \in DOMAIN out |-> out[k].targetNodeId]

\* The in-degree charged to the source of a connection instead of its target.
InDegree_BySource(connections) ==
    [id \in IdUniverse |-> Cardinality({k \in DOMAIN connections : connections[k].sourceNodeId = id})]

\* inDegree after the build loop: every connection adds one to its target,
\* whether or not its source (or its target) is a node.
InDegree(connections) ==
    [id \in IdUniverse |-> Cardinality({k \in DOMAIN connections : connections[k].targetNodeId = id})]

RECURSIVE ProcessNeighbors_Stack(_, _, _)
\* A neighbour that became ready is put at the front of the queue.
ProcessNeighbors_Stack(nbrs, inDeg, queue) ==
    IF nbrs = <<>> THEN [inDeg |-> inDeg, queue |-> queue]
    ELSE ProcessNeighbors_Stack(Tail(nbrs),
                                [inDeg EXCEPT ![Head(nbrs)] = @ - 1],
                                IF inDeg[Head(nbrs)] - 1 = 0 THEN <<Head(nbrs)>> \o queue ELSE queue)

RECURSIVE ProcessNeighbors(_, _, _)
\* The forEach over the neighbours of the node just emitted.
ProcessNeighbors(nbrs, inDeg, queue) ==
    IF nbrs = <<>> THEN [inDeg |-> inDeg, queue |-> queue]
    ELSE LET nb == Head(nbrs)
             newInDegree == inDeg[nb] - 1
         IN  ProcessNeighbors(Tail(nbrs),
                              [inDeg EXCEPT ![nb] = newInDegree],
                              IF newInDegree = 0 THEN Append(queue, nb) ELSE queue)

RECURSIVE Kahn(_, _, _, _, _)
Kahn(nodes, connections, inDeg, queue, result) ==
    IF queue = <<>> THEN result
    ELSE LET currentNode == Head(queue)
             nbrs == IF HasNode(nodes, currentNode) THEN Targets(connections, currentNode) ELSE <<>>
             step == ProcessNeighbors(nbrs, inDeg, Tail(queue))
         IN  Kahn(nodes, connections, step.inDeg, step.queue, Append(result, currentNode))

\* The nodes in the order of the node list, unsorted.
getTopologicalOrder_ListOrder(nodes, connections) == NodeIdsOf(nodes)

\* The sorted nodes followed by the nodes the sort left unresolved.
getTopologicalOrder_AppendRest(nodes, connections) ==
    LET done == Kahn(nodes, connections, InDegree(connections),
                     Filter(NodeIdsOf(nodes), LAMBDA id : InDegree(connections)[id] = 0), <<>>)
    IN  done \o Filter(NodeIdsOf(nodes), LAMBDA id : ~Contains(done, id))

getTopologicalOrder(nodes, connections) ==
    LET inDeg == InDegree(connections)
        ids   == NodeIdsOf(nodes)
        seeds == Filter(ids, LAMBDA id : inDeg[id] = 0)
    IN  Kahn(nodes, connections, inDeg, seeds, <<>>)

\* --------------------------------------------- hasCircularDependencies
\* adjacencyList of hasCircularDependencies: a connection is recorded only
\* when its source is a node.
CycleTargets(nodes, connections, id) ==
    IF HasNode(nodes, id) THEN Targets(connections, id) ELSE <<>>

RECURSIVE hasCycle(_, _, _, _)
RECURSIVE hasCycleLoop(_, _, _, _)
\* st = [found, visited, stack, path]; the DFS closure of the function.
hasCycle(nodes, connections, nodeId, st) ==
    IF nodeId \in st.stack THEN [st EXCEPT !.found = TRUE]
    ELSE IF nodeId \in st.visited THEN st
    ELSE LET entered == [st EXCEPT !.visited = @ \cup {nodeId},
                                   !.stack = @ \cup {nodeId},
                                   !.path = Append(@, nodeId)]
             Leave(after) == IF after.found THEN after
                             ELSE [after EXCEPT !.stack = @ \ {nodeId},
                                                !.path = SubSeq(@, 1, Len(@) - 1)]
         IN  Leave(hasCycleLoop(nodes, connections,
                                CycleTargets(nodes, connections, nodeId), entered))

hasCycleLoop(nodes, connections, nbrs, st) ==
    IF nbrs = <<>> THEN st
    ELSE LET Rest(r) == IF r.found THEN r
                        ELSE hasCycleLoop(nodes, connections, Tail(nbrs), r)
         IN  Rest(hasCycle(nodes, connections, Head(nbrs), st))

\* Only the first node is tried as a DFS root.
CheckRoots_FirstOnly(nodes, connections, roots, st) ==
    IF roots = <<>> THEN st ELSE hasCycle(nodes, connections, Head(roots), st)

RECURSIVE CheckRoots(_, _, _, _)
\* The loop over adjacencyList.keys(): every unvisited node is a DFS root.
CheckRoots(nodes, connections, roots, st) ==
    IF roots = <<>> THEN st
    ELSE IF Head(roots) \in st.visited
         THEN CheckRoots(nodes, connections, Tail(roots), st)
         ELSE LET Rest(r) == IF r.found THEN r
                             ELSE CheckRoots(nodes, connections, Tail(roots), r)
              IN  Rest(hasCycle(nodes, connections, Head(roots), st))

hasCircularDependencies(nodes, connections) ==
    LET Report(r) == [hasCircular |-> r.found, cyclePath |-> IF r.found THEN r.path ELSE <<>>]
    IN  Report(CheckRoots(nodes, connections, NodeIdsOf(nodes),
                          [found |-> FALSE, visited |-> {}, stack |-> {}, path |-> <<>>]))

\* ---------------------------------------- wouldCreateCircularDependency
RECURSIVE wouldCycle(_, _, _)
RECURSIVE wouldCycleLoop(_, _, _)
\* The closure hasCycle of wouldCreateCircularDependency over the
\* adjacency list of allConnections; st = [found, visited, stack].
wouldCycle(allConnections, nodeId, st) ==
    IF nodeId \in st.stack THEN [st EXCEPT !.found = TRUE]
    ELSE IF nodeId \in st.visited THEN st
    ELSE LET Leave(after) == IF after.found THEN after
                             ELSE [after EXCEPT !.stack = @ \ {nodeId}]
         IN  Leave(wouldCycleLoop(allConnections, Targets(allConnections, nodeId),
                                  [st EXCEPT !.visited = @ \cup {nodeId},
                                             !.stack = @ \cup {nodeId}]))

wouldCycleLoop(allConnections, nbrs, st) ==
    IF nbrs = <<>> THEN st
    ELSE LET Rest(r) == IF r.found THEN r
                        ELSE wouldCycleLoop(allConnections, Tail(nbrs), r)
         IN  Rest(wouldCycle(allConnections, Head(nbrs), st))

\* The check accepts every connection.
wouldCreateCircularDependency_Never(connections, newConnection) == FALSE

wouldCreateCircularDependency(connections, newConnection) ==
    IF newConnection.sourceNodeId = newConnection.targetNodeId THEN TRUE
    ELSE wouldCycle(Append(connections, newConnection), newConnection.targetNodeId,
                    [found |-> FALSE, visited |-> {}, stack |-> {}]).found

\* ------------------------------------------------------ validateWorkflow
RECURSIVE DanglingErrors_SourceOnly(_, _)
\* Only the source endpoint of a connection is looked up.
DanglingErrors_SourceOnly(nodes, connections) ==
    IF connections = <<>> THEN <<>>
    ELSE LET conn == Head(connections)
             s == IF HasNode(nodes, conn.sourceNodeId) THEN <<>>
                  ELSE <<[kind |-> "missing-source", ids |-> <<conn.sourceNodeId>>]>>
         IN  s \o DanglingErrors_SourceOnly(nodes, Tail(connections))

RECURSIVE DanglingErrors(_, _)
DanglingErrors(nodes, connections) ==
    IF connections = <<>> THEN <<>>
    ELSE LET conn == Head(connections)
             s == IF HasNode(nodes, conn.sourceNodeId) THEN <<>>
                  ELSE <<[kind |-> "missing-source", ids |-> <<conn.sourceNodeId>>]>>
             t == IF HasNode(nodes, conn.targetNodeId) THEN <<>>
                  ELSE <<[kind |-> "missing-target", ids |-> <<conn.targetNodeId>>]>>
         IN  s \o t \o DanglingErrors(nodes, Tail(connections))

IsolatedNodes(nodes, connections) ==
    LET connectedNodeIds == {connections[k].sourceNodeId : k \in DOMAIN connections}
                            \cup {connections[k].targetNodeId : k \in DOMAIN connections}
    IN  Filter(NodeIdsOf(nodes), LAMBDA id : id \notin connectedNodeIds)

validateWorkflow(workflow) ==
    LET nodes == workflow.nodes
        connections == workflow.connections
        emptyErr == IF Len(nodes) = 0 THEN <<[kind |-> "empty", ids |-> <<>>]>> ELSE <<>>
        CycleErr(circularCheck) ==
            IF circularCheck.hasCircular
            THEN <<[kind |-> "circular", ids |-> circularCheck.cyclePath]>>
            ELSE <<>>
        IsoErr(isolated) ==
            IF Len(isolated) > 0 /\ Len(nodes) > 1
            THEN <<[kind |-> "isolated-warning", ids |-> isolated]>>
            ELSE <<>>
        Verdict(errors) == [isValid |-> Len(errors) = 0, errors |-> errors]
    IN  Verdict(emptyErr \o CycleErr(hasCircularDependencies(nodes, connections))
                \o DanglingErrors(nodes, connections)
                \o IsoErr(IsolatedNodes(nodes, connections)))

\* -------------------------------------------------- ExecutionService
\* Result values are sequences of text atoms; the empty sequence is ''.
EmptyString == <<>>

Falsy(v) == v = Undefined \/ v = EmptyString

getInputNodes(nodeId, nodes, connections) ==
    LET inputConnections == Filter(connections, LAMBDA c : c.targetNodeId = nodeId)
        found == Filter(inputConnections, LAMBDA c : HasNode(nodes, c.sourceNodeId))
    IN  [k \in DOMAIN found |-> FindNode(nodes, found[k].sourceNodeId)]

\* An input node counts as not executed whenever its status is not completed.
validateNodeExecution_StatusOnly(node, nodes, connections) ==
    LET inputNodes == getInputNodes(node.id, nodes, connections)
        notReady == Filter(inputNodes, LAMBDA n : n.status # "completed")
    IN  IF Len(notReady) > 0
        THEN [isValid |-> FALSE, error |-> "not-executed-yet", about |-> notReady[1].id]
        ELSE IF node.type = "generate" /\ Len(inputNodes) = 0 /\ ~node.promptTemplate
        THEN [isValid |-> FALSE, error |-> "generate-needs-input-or-template", about |-> node.id]
        ELSE IF node.type = "output" /\ Len(inputNodes) = 0
        THEN [isValid |-> FALSE, error |-> "output-needs-input", about |-> node.id]
        ELSE [isValid |-> TRUE, error |-> "", about |-> node.id]

validateNodeExecution(node, nodes, connections) ==
    LET inputNodes == getInputNodes(node.id, nodes, connections)
        notReady == Filter(inputNodes, LAMBDA n : n.status # "completed" /\ n.result = Undefined)
    IN  IF Len(notReady) > 0
        THEN [isValid |-> FALSE, error |-> "not-executed-yet", about |-> notReady[1].id]
        ELSE IF node.type = "generate" /\ Len(inputNodes) = 0 /\ ~node.promptTemplate
        THEN [isValid |-> FALSE, error |-> "generate-needs-input-or-template", about |-> node.id]
        ELSE IF node.type = "output" /\ Len(inputNodes) = 0
        THEN [isValid |-> FALSE, error |-> "output-needs-input", about |-> node.id]
        ELSE [isValid |-> TRUE, error |-> "", about |-> node.id]

RECURSIVE PutKey(_, _, _)
\* record[key] = value on an insertion-ordered object.
PutKey(entries, key, value) ==
    IF entries = <<>> THEN <<[key |-> key, value |-> value]>>
    ELSE IF Head(entries).key = key
         THEN <<[key |-> key, value |-> value]>> \o Tail(entries)
         ELSE <<Head(entries)>> \o PutKey(Tail(entries), key, value)

\* `input_${index}`
InputKey(index) == <<"input_0", "input_1", "input_2", "input_3", "input_4", "input_5">>[index + 1]

RECURSIVE BuildInputs(_, _)
BuildInputs(inputNodes, k) ==
    IF k = 0 THEN <<>>
    ELSE PutKey(BuildInputs(inputNodes, k - 1),
                IF inputNodes[k].title # "" THEN inputNodes[k].title ELSE InputKey(k - 1),
                inputNodes[k].result)

RECURSIVE BuildVariables(_, _)
BuildVariables(inputNodes, k) ==
    IF k = 0 THEN <<>>
    ELSE PutKey(BuildVariables(inputNodes, k - 1),
                IF inputNodes[k].title # "" THEN inputNodes[k].title ELSE "Node " \o inputNodes[k].id,
                inputNodes[k].result)

buildExecutionContext(node, nodes, connections) ==
    LET inputNodes == getInputNodes(node.id, nodes, connections)
    IN  [nodeId |-> node.id,
         sources |-> [k \in DOMAIN inputNodes |-> inputNodes[k].id],
         inputs |-> BuildInputs(inputNodes, Len(inputNodes)),
         variables |-> BuildVariables(inputNodes, Len(inputNodes))]

RECURSIVE JoinValues(_)
\* Array.prototype.join: undefined joins as the empty string.
JoinValues(entries) ==
    IF entries = <<>> THEN <<>>
    ELSE LET v == IF Head(entries).value = Undefined THEN <<>> ELSE Head(entries).value
         IN  IF Tail(entries) = <<>> THEN v
             ELSE v \o <<"\n\n">> \o JoinValues(Tail(entries))

\* What the handler of the node's type does with the context: the set of
\* outcomes it can settle with.  The generation call is external and can
\* succeed or fail; the other handlers are determined by the node.
executeNodeByType(node, context) ==
    CASE node.type = "userInput" ->
           IF node.required /\ Falsy(node.result)
           THEN {[ok |-> FALSE, value |-> Undefined, error |-> "Required input is missing"]}
           ELSE {[ok |-> TRUE, value |-> IF Falsy(node.result) THEN EmptyString ELSE node.result,
                  error |-> ""]}
      [] node.type = "generate" ->
           {[ok |-> TRUE, value |-> <<"generated">>, error |-> ""],
            [ok |-> FALSE, value |-> Undefined, error |-> "Gemini API call failed"]}
      [] node.type = "output" ->
           IF Len(context.inputs) = 0
           THEN {[ok |-> FALSE, value |-> Undefined, error |-> "No inputs available for output"]}
           ELSE {[ok |-> TRUE, value |-> JoinValues(context.inputs), error |-> ""]}
      [] node.type = "addAssets" ->
           IF Falsy(node.result)
           THEN {[ok |-> FALSE, value |-> Undefined, error |-> "No assets provided"]}
           ELSE {[ok |-> TRUE, value |-> <<"Successfully processed">> \o node.result, error |-> ""]}

\* The handler's failure is thrown on to the caller of executeNode.
executeNodeSettled_Rethrow(o, context) ==
    [success |-> o.ok, result |-> o.value, error |-> o.error,
     thrown |-> ~o.ok, invoked |-> TRUE, sources |-> context.sources, inputs |-> context.inputs]

\* The end of the try block and the catch block of executeNode: the value
\* of the handler is returned with success=true, what it threw is returned
\* as the error of a success=false result.
executeNodeSettled(o, context) ==
    [success |-> o.ok, result |-> o.value, error |-> o.error,
     thrown |-> FALSE, invoked |-> TRUE, sources |-> context.sources, inputs |-> context.inputs]

\* The ExecutionResult values a call of executeNode can resolve to, with the
\* context its handler was given (invoked is FALSE when no handler ran).
\* Every failure is caught and returned, so no outcome is a rejection
\* (thrown is FALSE throughout).
executeNode(nodeId, nodes, connections) ==
    IF ~HasNode(nodes, nodeId)
    THEN {[success |-> FALSE, result |-> Undefined, error |-> "Node not found",
           thrown |-> FALSE, invoked |-> FALSE, sources |-> <<>>, inputs |-> <<>>]}
    ELSE LET node == FindNode(nodes, nodeId)
             validationResult == validateNodeExecution(node, nodes, connections)
             executionContext == buildExecutionContext(node, nodes, connections)
         IN  IF ~validationResult.isValid
             THEN {[success |-> FALSE, result |-> Undefined, error |-> validationResult.error,
                    thrown |-> FALSE, invoked |-> FALSE, sources |-> <<>>, inputs |-> <<>>]}
             ELSE {executeNodeSettled(o, executionContext)
                   : o \in executeNodeByType(node, executionContext)}

\* isNodeReadyForExecution: the check the node's Execute button makes first.
isNodeReadyForExecution(nodeId, nodes, connections) ==
    LET Checked(validation) == [ready |-> validation.isValid, reason |-> validation.error]
    IN  IF ~HasNode(nodes, nodeId)
        THEN [ready |-> FALSE, reason |-> "Node not found"]
        ELSE IF FindNode(nodes, nodeId).status = "running"
        THEN [ready |-> FALSE, reason |-> "Node is already running"]
        ELSE Checked(validateNodeExecution(FindNode(nodes, nodeId), nodes, connections))

\* ------------------------------------------- WorkflowExecutionService
VARIABLES
    workflow,        \* the graph snapshot handed to executeWorkflow
    executionState,  \* WorkflowExecutionService.executionState
    pc,              \* where the call of executeWorkflow stands
    executionOrder,  \* const executionOrder
    i,               \* the loop index
    finalOutputs,    \* const finalOutputs, insertion-ordered
    returned,        \* the WorkflowExecutionResult once the promise resolved
    nodeUpdates,     \* the calls of onNodeUpdate, in order
    invocations,     \* the handler invocations with the inputs they were given
    stopCalled,      \* stopExecution was called while the run was in flight
    sorted,          \* the value of a call of getTopologicalOrder on the graph
    validated,       \* the value of a call of validateWorkflow on the graph
    listener,        \* a subscriber of the execution state and what it was sent
    ui,              \* what the last click on Execute did
    executed,        \* the outcome of a single-node execution
    listeners,       \* WorkflowExecutionService.listeners, the registered callbacks
    received,        \* the listener calls made by the last step, in order
    connectionError  \* the connectionError state of the canvas

vars == <<workflow, executionState, pc, executionOrder, i, finalOutputs,
          returned, nodeUpdates, invocations, stopCalled, sorted, validated,
          listener, ui, executed, listeners, received, connectionError>>

NotCalled == [done |-> FALSE, value |-> <<>>]

Called(value) == [done |-> TRUE, value |-> value]

\* progress is the quotient num / den, kept exact.
Fraction(num, den) == [num |-> num, den |-> den]

InitialExecutionState ==
    [isRunning |-> FALSE, currentNodeId |-> "null", completedNodes |-> <<>>,
     failedNodes |-> <<>>, progress |-> Fraction(0, 1), errors |-> <<>>,
     startTime |-> "undefined", endTime |-> "undefined"]

\* No listener is subscribed.
Unsubscribed == [subscribed |-> FALSE, calls |-> 0, state |-> InitialExecutionState]

\* The listener of a mounted execution panel: subscribed, holding the state
\* it read when it was mounted.
Subscribed == [subscribed |-> TRUE, calls |-> 0, state |-> InitialExecutionState]

\* this.listeners.forEach(listener => listener(this.executionState)) at the
\* end of each of n calls of updateExecutionState, the last leaving state.
Notified(l, n, state) ==
    IF l.subscribed THEN [l EXCEPT !.calls = @ + n, !.state = state] ELSE l

\* ---- the subscribers
\* The callbacks that are registered: log only takes the state, once calls
\* its own unsubscribe function when it is called, kick calls the
\* unsubscribe function of log when it is called.
Callbacks == {"log", "once", "kick"}

\* subscribe: this.listeners.push(listener)
subscribe(array, callback) == Append(array, callback)

\* The function subscribe returns:
\* this.listeners = this.listeners.filter(l => l !== listener)
unsubscribe(array, callback) == Filter(array, LAMBDA l : l # callback)

\* this.listeners after the body of a callback has run.
callListener(array, callback) ==
    CASE callback = "once" -> unsubscribe(array, "once")
      [] callback = "kick" -> unsubscribe(array, "log")
      [] OTHER -> array

RECURSIVE forEachListener_Live(_, _, _, _)
\* The loop skips a callback that is no longer in this.listeners.
forEachListener_Live(array, k, state, acc) ==
    IF k > Len(array) THEN acc
    ELSE IF ~Contains(acc.listeners, array[k])
         THEN forEachListener_Live(array, k + 1, state, acc)
         ELSE forEachListener_Live(array, k + 1, state,
                  [listeners |-> callListener(acc.listeners, array[k]),
                   received |-> Append(acc.received, [callback |-> array[k], state |-> state])])

RECURSIVE forEachListener(_, _, _, _)
\* this.listeners.forEach(listener => listener(this.executionState)): the
\* loop runs over the array this.listeners named when it began, from
\* element k on; acc is this.listeners and the calls made so far.
forEachListener(array, k, state, acc) ==
    IF k > Len(array) THEN acc
    ELSE forEachListener(array, k + 1, state,
             [listeners |-> callListener(acc.listeners, array[k]),
              received |-> Append(acc.received, [callback |-> array[k], state |-> state])])

RECURSIVE notifyRounds(_, _)
\* One forEach per call of updateExecutionState, each with the state that
\* call has written.
notifyRounds(states, acc) ==
    IF states = <<>> THEN acc
    ELSE notifyRounds(Tail(states), forEachListener(acc.listeners, 1, Head(states), acc))

\* The listener calls of a step that calls updateExecutionState once for
\* each of states.
notifyListeners(states) ==
    LET Made(r) == listeners' = r.listeners /\ received' = r.received
    IN  Made(notifyRounds(states, [listeners |-> listeners, received |-> <<>>]))

NotReturned == [done |-> FALSE, success |-> FALSE, finalOutputs |-> <<>>, errors |-> <<>>]

Returned(success, outputs, errors) ==
    [done |-> TRUE, success |-> success, finalOutputs |-> outputs, errors |-> errors]

WorkflowError(nodeId, message, ids) == [nodeId |-> nodeId, message |-> message, ids |-> ids]

\* ---- the workflows a run is started on
MakeNode(id, kind) ==
    [id |-> id, type |-> kind.type, title |-> DefaultTitle(kind.type),
     status |-> kind.status, result |-> kind.result,
     required |-> kind.required, promptTemplate |-> kind.promptTemplate]

\* What the store can hold for a node when a run starts: a node as addNode
\* made it, a node whose input was typed in, a node left over from an
\* earlier run.
NodeKinds ==
    {[type |-> "userInput", status |-> "idle", result |-> <<"typed">>,
      required |-> TRUE, promptTemplate |-> FALSE],
     [type |-> "userInput", status |-> "idle", result |-> Undefined,
      required |-> TRUE, promptTemplate |-> FALSE],
     [type |-> "generate", status |-> "idle", result |-> Undefined,
      required |-> FALSE, promptTemplate |-> TRUE],
     [type |-> "generate", status |-> "completed", result |-> <<"earlier">>,
      required |-> FALSE, promptTemplate |-> TRUE],
     [type |-> "output", status |-> "idle", result |-> Undefined,
      required |-> FALSE, promptTemplate |-> FALSE],
     [type |-> "addAssets", status |-> "idle", result |-> <<"asset">>,
      required |-> FALSE, promptTemplate |-> FALSE]}

RunIds == <<"n1", "n2", "n3">>

\* Every ordered pair of run ids, as a connection.
RunEdges ==
    [k \in 1..(Len(RunIds) * Len(RunIds)) |->
        [sourceNodeId |-> RunIds[((k - 1) \div Len(RunIds)) + 1],
         targetNodeId |-> RunIds[((k - 1) % Len(RunIds)) + 1]]]

RunConnections ==
    {Filter(RunEdges, LAMBDA e : e \in S) :
        S \in {T \in SUBSET Range(RunEdges) : Cardinality(T) <= MaxConns}}

\* The ids of the graphs of up to two nodes.
SingleIds == <<"n1", "n2">>

\* The connections among the ids of SingleIds.
SingleConnections ==
    {c \in RunConnections :
        \A k \in DOMAIN c : {c[k].sourceNodeId, c[k].targetNodeId} \subseteq Range(SingleIds)}

\* The workflow made of the first n run ids with the given kinds.
RunWorkflow(n, kinds, conns) ==
    [nodes |-> [k \in 1..n |-> MakeNode(RunIds[k], kinds[k])], connections |-> conns]

Init ==
    /\ \E conns \in RunConnections : \E n \in 0..Len(RunIds) : \E kinds \in [1..n -> NodeKinds] :
          workflow = RunWorkflow(n, kinds, conns)
    /\ executionState = InitialExecutionState
    /\ pc = "idle"
    /\ executionOrder = <<>>
    /\ i = 0
    /\ finalOutputs = <<>>
    /\ returned = NotReturned
    /\ nodeUpdates = <<>>
    /\ invocations = <<>>
    /\ stopCalled = FALSE
    /\ sorted = NotCalled
    /\ validated = NotCalled
    /\ listener = Unsubscribed
    /\ ui = NotCalled
    /\ executed = NotCalled
    /\ listeners = <<>>
    /\ received = <<>>
    /\ connectionError = "null"

\* updateExecutionState: the updates are merged over the current state.
updateExecutionState(state, updates) ==
    [f \in DOMAIN state |-> IF f \in DOMAIN updates THEN updates[f] ELSE state[f]]

\* The result of the validation is not looked at.
ValidationFailed_Ignored(validation) == FALSE

\* if (!validation.isValid): the run ends before any node is looked at.
ValidationFailed(validation) == ~validation.isValid

\* The loop goes on to the next index after a failure too.
SettleControl_NoHalt(success, index) == [pc |-> "loop", i |-> index + 1]

\* Where the loop stands after the result of a node: the next index after a
\* success, the return out of the function after a failure.
SettleControl(success, index) ==
    IF success THEN [pc |-> "loop", i |-> index + 1] ELSE [pc |-> "done", i |-> index]

\* The check for an empty graph is left to the validator.
canExecuteWorkflow_NoEmptyCheck(wf, state) ==
    IF state.isRunning
    THEN [canExecute |-> FALSE, reason |-> "Another workflow is currently running"]
    ELSE IF ~validateWorkflow(wf).isValid
    THEN [canExecute |-> FALSE, reason |-> validateWorkflow(wf).errors[1].kind]
    ELSE [canExecute |-> TRUE, reason |-> "undefined"]

\* canExecuteWorkflow: a pure read of the execution state and the graph.
canExecuteWorkflow(wf, state) ==
    LET Checked(validation) ==
            IF ~validation.isValid
            THEN [canExecute |-> FALSE, reason |-> validation.errors[1].kind]
            ELSE [canExecute |-> TRUE, reason |-> "undefined"]
    IN  IF state.isRunning
        THEN [canExecute |-> FALSE, reason |-> "Another workflow is currently running"]
        ELSE IF Len(wf.nodes) = 0
        THEN [canExecute |-> FALSE, reason |-> "Workflow must contain at least one node"]
        ELSE Checked(validateWorkflow(wf))

\* executeWorkflow up to the start of the loop: reset of the state,
\* validation, execution order.
executeWorkflowStart ==
    /\ pc = "idle"
    /\ LET reset == updateExecutionState(executionState,
                        [isRunning |-> TRUE, currentNodeId |-> "null", completedNodes |-> <<>>,
                         failedNodes |-> <<>>, progress |-> Fraction(0, 1), errors |-> <<>>,
                         startTime |-> "date", endTime |-> "undefined"])
           Errors(found) == [k \in DOMAIN found |-> WorkflowError("", found[k].kind, found[k].ids)]
           Rejected(errors) ==
               /\ executionState' = updateExecutionState(reset,
                      [isRunning |-> FALSE, errors |-> errors, endTime |-> "date"])
               /\ listener' = Notified(listener, 2, executionState')
               /\ notifyListeners(<<reset, executionState'>>)
               /\ returned' = Returned(FALSE, <<>>, errors)
               /\ pc' = "done"
               /\ executionOrder' = <<>>
           Ordered(order) ==
               IF Len(order) # Len(workflow.nodes)
               THEN LET error == WorkflowError("", "circular dependencies prevent execution", <<>>)
                    IN  /\ executionState' = updateExecutionState(reset,
                               [isRunning |-> FALSE, errors |-> <<error>>, endTime |-> "date"])
                        /\ listener' = Notified(listener, 2, executionState')
                        /\ notifyListeners(<<reset, executionState'>>)
                        /\ returned' = Returned(FALSE, <<>>, <<error>>)
                        /\ pc' = "done"
                        /\ executionOrder' = order
               ELSE /\ executionState' = reset
                    /\ listener' = Notified(listener, 1, executionState')
                    /\ notifyListeners(<<executionState'>>)
                    /\ returned' = returned
                    /\ pc' = "loop"
                    /\ executionOrder' = order
           Validated(validation) ==
               IF ValidationFailed(validation)
               THEN Rejected(Errors(validation.errors))
               ELSE Ordered(getTopologicalOrder(workflow.nodes, workflow.connections))
       IN  Validated(validateWorkflow(workflow))
    /\ i' = 0
    /\ finalOutputs' = <<>>
    /\ UNCHANGED <<workflow, invocations, stopCalled, sorted, validated, executed, connectionError>>

\* executeWorkflow called on its own, with an onNodeUpdate callback.
ExecuteWorkflow == executeWorkflowStart /\ UNCHANGED <<nodeUpdates, ui>>

\* Every call reports the node as completed.
NodeUpdate_Completed(nodeId, status, result) ==
    [nodeId |-> nodeId, status |-> "completed", result |-> result]

NodeUpdate(nodeId, status, result) == [nodeId |-> nodeId, status |-> status, result |-> result]

\* The loop starts a node and goes on to the next without awaiting it.
Dispatch_NoAwait ==
    /\ pc = "loop"
    /\ i < Len(executionOrder)
    /\ executionState' = updateExecutionState(executionState,
           [currentNodeId |-> executionOrder[i + 1],
            progress |-> Fraction(i * 100, Len(executionOrder))])
    /\ nodeUpdates' = Append(nodeUpdates, NodeUpdate(executionOrder[i + 1], "running", Undefined))
    /\ i' = i + 1
    /\ listener' = Notified(listener, 1, executionState')
    /\ notifyListeners(<<executionState'>>)
    /\ UNCHANGED <<workflow, pc, executionOrder, finalOutputs, returned, invocations, stopCalled,
                   sorted, validated, ui, executed, connectionError>>

\* The head of one loop iteration, up to the await of executeNode.
Dispatch ==
    /\ pc = "loop"
    /\ i < Len(executionOrder)
    /\ LET nodeId == executionOrder[i + 1]
       IN  IF ~HasNode(workflow.nodes, nodeId)
           THEN /\ executionState' = updateExecutionState(executionState,
                       [errors |-> Append(executionState.errors,
                                          WorkflowError(nodeId, "not found in workflow", <<>>))])
                /\ i' = i + 1
                /\ UNCHANGED <<pc, nodeUpdates>>
           ELSE /\ executionState' = updateExecutionState(executionState,
                       [currentNodeId |-> nodeId,
                        progress |-> Fraction(i * 100, Len(executionOrder))])
                /\ nodeUpdates' = Append(nodeUpdates, NodeUpdate(nodeId, "running", Undefined))
                /\ pc' = "awaiting"
                /\ i' = i
    /\ listener' = Notified(listener, 1, executionState')
    /\ notifyListeners(<<executionState'>>)
    /\ UNCHANGED <<workflow, executionOrder, finalOutputs, returned, invocations, stopCalled,
                   sorted, validated, ui, executed, connectionError>>

\* The result is stored under the title whatever the type of the node.
storeFinalOutput_TitleAlways(outputs, node, result) ==
    PutKey(PutKey(outputs, node.id, result),
           IF node.title # "" THEN node.title ELSE "Output", result)

\* finalOutputs[nodeId] = result, and for an output node
\* finalOutputs[title || 'Output'] = result as well.
storeFinalOutput(outputs, node, result) ==
    IF node.type = "output"
    THEN PutKey(PutKey(outputs, node.id, result),
                IF node.title # "" THEN node.title ELSE "Output", result)
    ELSE PutKey(outputs, node.id, result)

\* The promise of executeNode settles and the iteration runs to its end.
Settle ==
    /\ pc = "awaiting"
    /\ LET nodeId == executionOrder[i + 1]
           node == FindNode(workflow.nodes, nodeId)
       IN  \E executionResult \in executeNode(nodeId, workflow.nodes, workflow.connections) :
             /\ invocations' = IF executionResult.invoked
                               THEN Append(invocations, [nodeId |-> nodeId,
                                                         sources |-> executionResult.sources,
                                                         inputs |-> executionResult.inputs])
                               ELSE invocations
             /\ IF executionResult.thrown
                THEN LET workflowError == WorkflowError(nodeId, executionResult.error, <<>>)
                     IN  /\ executionState' = updateExecutionState(executionState,
                                [failedNodes |-> Append(executionState.failedNodes, nodeId),
                                 errors |-> Append(executionState.errors, workflowError),
                                 isRunning |-> FALSE, currentNodeId |-> "null",
                                 endTime |-> "date"])
                         /\ nodeUpdates' = Append(nodeUpdates, NodeUpdate(nodeId, "error", Undefined))
                         /\ listener' = Notified(listener, 1, executionState')
                         /\ notifyListeners(<<executionState'>>)
                         /\ returned' = Returned(FALSE, finalOutputs, executionState'.errors)
                         /\ pc' = SettleControl(FALSE, i).pc
                         /\ i' = SettleControl(FALSE, i).i
                         /\ UNCHANGED finalOutputs
                ELSE IF executionResult.success
                THEN /\ executionState' = updateExecutionState(executionState,
                            [completedNodes |-> Append(executionState.completedNodes, nodeId)])
                     /\ listener' = Notified(listener, 1, executionState')
                     /\ notifyListeners(<<executionState'>>)
                     /\ nodeUpdates' = Append(nodeUpdates,
                            NodeUpdate(nodeId, "completed", executionResult.result))
                     /\ finalOutputs' = storeFinalOutput(finalOutputs, node, executionResult.result)
                     /\ i' = SettleControl(TRUE, i).i
                     /\ pc' = SettleControl(TRUE, i).pc
                     /\ returned' = returned
                ELSE LET error == WorkflowError(nodeId, executionResult.error, <<>>)
                         failed == updateExecutionState(executionState,
                                       [failedNodes |-> Append(executionState.failedNodes, nodeId),
                                        errors |-> Append(executionState.errors, error)])
                     IN  /\ nodeUpdates' = Append(nodeUpdates, NodeUpdate(nodeId, "error", Undefined))
                         /\ executionState' = updateExecutionState(failed,
                                [isRunning |-> FALSE, currentNodeId |-> "null", endTime |-> "date"])
                         /\ listener' = Notified(listener, 2, executionState')
                         /\ notifyListeners(<<failed, executionState'>>)
                         /\ returned' = Returned(FALSE, finalOutputs, executionState'.errors)
                         /\ pc' = SettleControl(FALSE, i).pc
                         /\ i' = SettleControl(FALSE, i).i
                         /\ UNCHANGED finalOutputs
    /\ UNCHANGED <<workflow, executionOrder, stopCalled, sorted, validated, ui, executed, connectionError>>

\* The final update leaves progress where the loop left it.
Complete_KeepProgress ==
    /\ pc = "loop"
    /\ i >= Len(executionOrder)
    /\ executionState' = updateExecutionState(executionState,
           [isRunning |-> FALSE, currentNodeId |-> "null", endTime |-> "date"])
    /\ returned' = Returned(TRUE, finalOutputs, executionState'.errors)
    /\ pc' = "done"
    /\ listener' = Notified(listener, 1, executionState')
    /\ notifyListeners(<<executionState'>>)
    /\ UNCHANGED <<workflow, executionOrder, i, finalOutputs, nodeUpdates, invocations, stopCalled,
                   sorted, validated, ui, executed, connectionError>>

\* The loop has run through the whole execution order.
Complete ==
    /\ pc = "loop"
    /\ i >= Len(executionOrder)
    /\ executionState' = updateExecutionState(executionState,
           [isRunning |-> FALSE, currentNodeId |-> "null",
            progress |-> Fraction(100, 1), endTime |-> "date"])
    /\ returned' = Returned(TRUE, finalOutputs, executionState'.errors)
    /\ pc' = "done"
    /\ listener' = Notified(listener, 1, executionState')
    /\ notifyListeners(<<executionState'>>)
    /\ UNCHANGED <<workflow, executionOrder, i, finalOutputs, nodeUpdates, invocations, stopCalled,
                   sorted, validated, ui, executed, connectionError>>

\* stopExecution, called while the run awaits a node: the await hands
\* control to whatever else is queued, a click on Stop included.
StopExecution ==
    /\ pc = "awaiting"
    /\ executionState' = updateExecutionState(executionState,
           [isRunning |-> FALSE, currentNodeId |-> "null", endTime |-> "date"])
    /\ stopCalled' = TRUE
    /\ listener' = Notified(listener, 1, executionState')
    /\ notifyListeners(<<executionState'>>)
    /\ UNCHANGED <<workflow, pc, executionOrder, i, finalOutputs, returned, nodeUpdates, invocations,
                   sorted, validated, ui, executed, connectionError>>

Next == ExecuteWorkflow \/ Dispatch \/ Settle \/ Complete \/ StopExecution

Spec == Init /\ [][Next]_vars

\* ------------------------------------- the service behind its panel
\* The runs of the execution panel: graphs of up to two nodes, a mounted
\* listener, the Execute, Stop and Reset buttons.  The panel is followed up
\* to its first call of executeWorkflow.
InitService ==
    /\ \E conns \in SingleConnections : \E n \in 0..Len(SingleIds) : \E kinds \in [1..n -> NodeKinds] :
          workflow = RunWorkflow(n, kinds, conns)
    /\ executionState = InitialExecutionState
    /\ pc = "idle"
    /\ executionOrder = <<>>
    /\ i = 0
    /\ finalOutputs = <<>>
    /\ returned = NotReturned
    /\ nodeUpdates = <<>>
    /\ invocations = <<>>
    /\ stopCalled = FALSE
    /\ sorted = NotCalled
    /\ validated = NotCalled
    /\ listener = Subscribed
    /\ ui = NotCalled
    /\ executed = NotCalled
    /\ listeners = <<>>
    /\ received = <<>>
    /\ connectionError = "null"

\* handleExecuteWorkflow: the readiness pre-check, an alert on rejection,
\* otherwise the reset of every node and the call of executeWorkflow.
HandleExecuteWorkflow ==
    LET Clicked(check) ==
            IF ~check.canExecute
            THEN /\ ui' = Called([canExecute |-> FALSE, reason |-> check.reason,
                                  alert |-> check.reason, started |-> FALSE])
                 /\ UNCHANGED <<workflow, executionState, pc, executionOrder, i, finalOutputs,
                                returned, nodeUpdates, invocations, stopCalled, sorted, validated,
                                listener, executed, listeners, received, connectionError>>
            ELSE /\ ui' = Called([canExecute |-> TRUE, reason |-> check.reason,
                                  alert |-> "none", started |-> TRUE])
                 /\ nodeUpdates' = nodeUpdates \o [k \in DOMAIN workflow.nodes |->
                                                      NodeUpdate(workflow.nodes[k].id, "idle", Undefined)]
                 /\ executeWorkflowStart
    IN  Clicked(canExecuteWorkflow(workflow, executionState))

\* The state after resetExecutionState leaves the errors of the run in place.
ResetExecutionState_KeepErrors ==
    /\ listener.calls < MaxNotifications
    /\ executionState' = updateExecutionState(executionState,
           [isRunning |-> FALSE, currentNodeId |-> "null", completedNodes |-> <<>>,
            failedNodes |-> <<>>, progress |-> Fraction(0, 1),
            startTime |-> "undefined", endTime |-> "undefined"])
    /\ listener' = Notified(listener, 1, executionState')
    /\ notifyListeners(<<executionState'>>)
    /\ UNCHANGED <<workflow, pc, executionOrder, i, finalOutputs, returned, nodeUpdates, invocations,
                   stopCalled, sorted, validated, ui, executed, connectionError>>

\* resetExecutionState, at any time.
ResetExecutionState ==
    /\ listener.calls < MaxNotifications
    /\ executionState' = updateExecutionState(executionState,
           [isRunning |-> FALSE, currentNodeId |-> "null", completedNodes |-> <<>>,
            failedNodes |-> <<>>, progress |-> Fraction(0, 1), errors |-> <<>>,
            startTime |-> "undefined", endTime |-> "undefined"])
    /\ listener' = Notified(listener, 1, executionState')
    /\ notifyListeners(<<executionState'>>)
    /\ UNCHANGED <<workflow, pc, executionOrder, i, finalOutputs, returned, nodeUpdates, invocations,
                   stopCalled, sorted, validated, ui, executed, connectionError>>

\* handleStopExecution of the panel.
StopService == listener.calls < MaxNotifications /\ StopExecution

NextService ==
    HandleExecuteWorkflow \/ Dispatch \/ Settle \/ Complete \/ StopService \/ ResetExecutionState

SpecService == InitService /\ [][NextService]_vars

\* ------------------------------------------- the service and its subscribers
\* The connections of the workflows that are run with subscribers.
SubscribeConnections == {<<>>, <<[sourceNodeId |-> "n1", targetNodeId |-> "n2"]>>}

\* Runs of graphs of up to two nodes while callbacks are subscribed and
\* unsubscribed, from outside and from inside the callbacks.
InitSubscribe ==
    /\ \E conns \in SubscribeConnections : \E n \in 0..Len(SingleIds) : \E kinds \in [1..n -> NodeKinds] :
          workflow = RunWorkflow(n, kinds, conns)
    /\ executionState = InitialExecutionState
    /\ pc = "idle"
    /\ executionOrder = <<>>
    /\ i = 0
    /\ finalOutputs = <<>>
    /\ returned = NotReturned
    /\ nodeUpdates = <<>>
    /\ invocations = <<>>
    /\ stopCalled = FALSE
    /\ sorted = NotCalled
    /\ validated = NotCalled
    /\ listener = Unsubscribed
    /\ ui = NotCalled
    /\ executed = NotCalled
    /\ listeners = <<>>
    /\ received = <<>>
    /\ connectionError = "null"

\* A call of subscribe.
Subscribe ==
    /\ Len(listeners) < MaxListeners
    /\ \E callback \in Callbacks : listeners' = subscribe(listeners, callback)
    /\ received' = <<>>
    /\ UNCHANGED <<workflow, executionState, pc, executionOrder, i, finalOutputs, returned,
                   nodeUpdates, invocations, stopCalled, sorted, validated, listener, ui,
                   executed, connectionError>>

\* A call, between two steps of the service, of the function subscribe
\* returned for a callback.
Unsubscribe ==
    /\ \E callback \in Range(listeners) : listeners' = unsubscribe(listeners, callback)
    /\ received' = <<>>
    /\ UNCHANGED <<workflow, executionState, pc, executionOrder, i, finalOutputs, returned,
                   nodeUpdates, invocations, stopCalled, sorted, validated, listener, ui,
                   executed, connectionError>>

NextSubscribe ==
    \/ Subscribe \/ Unsubscribe
    \/ ExecuteWorkflow \/ Dispatch \/ Settle \/ Complete \/ StopExecution \/ ResetExecutionState

SpecSubscribe == InitSubscribe /\ [][NextSubscribe]_vars

\* ------------------------------------- the graph functions on their own
\* The graphs the validator and the sorter are applied to: the first n ids
\* are nodes, and a connection may name any id of the universe.
GraphEdges == {[sourceNodeId |-> a, targetNodeId |-> b] : a \in IdUniverse, b \in IdUniverse}

GraphConnections == UNION {[1..k -> GraphEdges] : k \in 0..MaxConns}

GraphNode(id) ==
    [id |-> id, type |-> "generate", title |-> DefaultTitle("generate"), status |-> "idle",
     result |-> Undefined, required |-> FALSE, promptTemplate |-> TRUE]

GraphWorkflow(n, conns) ==
    [nodes |-> [k \in 1..n |-> GraphNode(AllIds[k])], connections |-> conns]

InitGraph ==
    /\ \E conns \in GraphConnections : \E n \in 0..MaxNodes : workflow = GraphWorkflow(n, conns)
    /\ executionState = InitialExecutionState
    /\ pc = "idle"
    /\ executionOrder = <<>>
    /\ i = 0
    /\ finalOutputs = <<>>
    /\ returned = NotReturned
    /\ nodeUpdates = <<>>
    /\ invocations = <<>>
    /\ stopCalled = FALSE
    /\ sorted = NotCalled
    /\ validated = NotCalled
    /\ listener = Unsubscribed
    /\ ui = NotCalled
    /\ executed = NotCalled
    /\ listeners = <<>>
    /\ received = <<>>
    /\ connectionError = "null"

SortGraph ==
    /\ ~sorted.done
    /\ sorted' = Called(getTopologicalOrder(workflow.nodes, workflow.connections))
    /\ UNCHANGED <<workflow, executionState, pc, executionOrder, i, finalOutputs,
                   returned, nodeUpdates, invocations, stopCalled, validated,
                   listener, ui, executed, listeners, received, connectionError>>

ValidateGraph ==
    /\ ~validated.done
    /\ validated' = Called(validateWorkflow(workflow))
    /\ UNCHANGED <<workflow, executionState, pc, executionOrder, i, finalOutputs,
                   returned, nodeUpdates, invocations, stopCalled, sorted,
                   listener, ui, executed, listeners, received, connectionError>>

NextGraph == SortGraph \/ ValidateGraph

SpecGraph == InitGraph /\ [][NextGraph]_vars

\* ------------------------------------------------------- the canvas
RECURSIVE ReachableIds(_, _, _)
\* The ids reached from front along one or more connections.
ReachableIds(connections, front, seen) ==
    LET next == {connections[k].targetNodeId :
                    k \in {j \in DOMAIN connections : connections[j].sourceNodeId \in front}} \ seen
    IN  IF next = {} THEN seen ELSE ReachableIds(connections, next, seen \cup next)

Acyclic(connections) ==
    \A k \in DOMAIN connections :
        connections[k].sourceNodeId
            \notin ReachableIds(connections, {connections[k].sourceNodeId}, {})

\* The canvas opens on a workflow whose connections are acyclic.
InitCanvas ==
    /\ \E conns \in GraphConnections : \E n \in 0..MaxNodes :
          /\ Acyclic(conns)
          /\ workflow = GraphWorkflow(n, conns)
    /\ executionState = InitialExecutionState
    /\ pc = "idle"
    /\ executionOrder = <<>>
    /\ i = 0
    /\ finalOutputs = <<>>
    /\ returned = NotReturned
    /\ nodeUpdates = <<>>
    /\ invocations = <<>>
    /\ stopCalled = FALSE
    /\ sorted = NotCalled
    /\ validated = NotCalled
    /\ listener = Unsubscribed
    /\ ui = NotCalled
    /\ executed = NotCalled
    /\ listeners = <<>>
    /\ received = <<>>
    /\ connectionError = "null"

\* onConnect with the handles of two nodes on the canvas; both handles
\* carry the default ports.  Connections are added up to MaxConns.
onConnect(source, target) ==
    LET newConnection == [sourceNodeId |-> source, targetNodeId |-> target]
    IN  /\ HasNode(workflow.nodes, source)
        /\ HasNode(workflow.nodes, target)
        /\ IF wouldCreateCircularDependency(workflow.connections, newConnection)
           THEN /\ connectionError' = "Connection would create circular dependency"
                /\ workflow' = workflow
           ELSE IF Contains(workflow.connections, newConnection)
           THEN /\ connectionError' = "Connection already exists"
                /\ workflow' = workflow
           ELSE /\ Len(workflow.connections) < MaxConns
                /\ workflow' = [workflow EXCEPT !.connections = Append(@, newConnection)]
                /\ connectionError' = "null"
        /\ UNCHANGED <<executionState, pc, executionOrder, i, finalOutputs, returned,
                       nodeUpdates, invocations, stopCalled, sorted, validated, listener, ui,
                       executed, listeners, received>>

OnConnect == \E source \in IdUniverse : \E target \in IdUniverse : onConnect(source, target)

\* setTimeout(() => setConnectionError(null), 3000)
ClearConnectionError ==
    /\ connectionError # "null"
    /\ connectionError' = "null"
    /\ UNCHANGED <<workflow, executionState, pc, executionOrder, i, finalOutputs, returned,
                   nodeUpdates, invocations, stopCalled, sorted, validated, listener, ui,
                   executed, listeners, received>>

\* removeConnection for the edge the canvas reports as removed.
RemoveConnection ==
    /\ \E k \in DOMAIN workflow.connections :
          workflow' = [workflow EXCEPT !.connections =
                          SubSeq(@, 1, k - 1) \o SubSeq(@, k + 1, Len(@))]
    /\ UNCHANGED <<executionState, pc, executionOrder, i, finalOutputs, returned,
                   nodeUpdates, invocations, stopCalled, sorted, validated, listener, ui,
                   executed, listeners, received, connectionError>>

\* removeNode: the node goes, and every connection that involves it.
RemoveNode ==
    /\ \E nodeId \in Range(NodeIdsOf(workflow.nodes)) :
          workflow' = [nodes |-> Filter(workflow.nodes, LAMBDA node : node.id # nodeId),
                       connections |-> Filter(workflow.connections,
                                              LAMBDA conn : /\ conn.sourceNodeId # nodeId
                                                            /\ conn.targetNodeId # nodeId)]
    /\ UNCHANGED <<executionState, pc, executionOrder, i, finalOutputs, returned,
                   nodeUpdates, invocations, stopCalled, sorted, validated, listener, ui,
                   executed, listeners, received, connectionError>>

NextCanvas == OnConnect \/ ClearConnectionError \/ RemoveConnection \/ RemoveNode

SpecCanvas == InitCanvas /\ [][NextCanvas]_vars

\* ------------------------------------------ the execution of one node
\* What updateNode can have left in a node of the store: any status, with
\* or without a result.
NodeStates ==
    {[type |-> t, status |-> st, result |-> r, required |-> (t = "userInput"), promptTemplate |-> tpl] :
        t \in NodeTypes, st \in {"idle", "running", "completed", "error"},
        r \in {Undefined, <<"value">>}, tpl \in BOOLEAN}
    \ {k \in [type : NodeTypes, status : {"idle", "running", "completed", "error"},
               result : {Undefined, <<"value">>}, required : BOOLEAN, promptTemplate : BOOLEAN] :
            k.type # "generate" /\ k.promptTemplate}

InitNode ==
    /\ \E conns \in SingleConnections : \E n \in 0..Len(SingleIds) : \E kinds \in [1..n -> NodeStates] :
          workflow = RunWorkflow(n, kinds, conns)
    /\ executionState = InitialExecutionState
    /\ pc = "idle"
    /\ executionOrder = <<>>
    /\ i = 0
    /\ finalOutputs = <<>>
    /\ returned = NotReturned
    /\ nodeUpdates = <<>>
    /\ invocations = <<>>
    /\ stopCalled = FALSE
    /\ sorted = NotCalled
    /\ validated = NotCalled
    /\ listener = Unsubscribed
    /\ ui = NotCalled
    /\ executed = NotCalled
    /\ listeners = <<>>
    /\ received = <<>>
    /\ connectionError = "null"

Invoked(nodeId, r) ==
    IF r.invoked
    THEN Append(invocations, [nodeId |-> nodeId, sources |-> r.sources, inputs |-> r.inputs])
    ELSE invocations

\* ExecutionService.executeNode called on its own, with any id.
ExecuteNodeCall ==
    /\ ~executed.done
    /\ \E nodeId \in Range(SingleIds) :
          \E r \in executeNode(nodeId, workflow.nodes, workflow.connections) :
             /\ executed' = Called([nodeId |-> nodeId, via |-> "executeNode", result |-> r])
             /\ invocations' = Invoked(nodeId, r)
    /\ UNCHANGED <<workflow, executionState, pc, executionOrder, i, finalOutputs, returned,
                   nodeUpdates, stopCalled, sorted, validated, listener, ui,
                   listeners, received, connectionError>>

\* `Execution failed: ${reason}`
ExecutionFailed(reason) == <<"Execution failed", reason>>

\* handleExecute of a rendered node: the readiness check, then the status
\* updates around the call of executeNode.
HandleExecute ==
    /\ ~executed.done
    /\ \E nodeId \in Range(NodeIdsOf(workflow.nodes)) :
          LET Refused(readinessCheck) ==
                  /\ nodeUpdates' = <<NodeUpdate(nodeId, "error", ExecutionFailed(readinessCheck.reason))>>
                  /\ invocations' = invocations
                  /\ executed' = Called([nodeId |-> nodeId, via |-> "handleExecute",
                                         result |-> [success |-> FALSE, result |-> Undefined,
                                                     error |-> readinessCheck.reason, thrown |-> FALSE,
                                                     invoked |-> FALSE, sources |-> <<>>, inputs |-> <<>>]])
              Run ==
                  \E r \in executeNode(nodeId, workflow.nodes, workflow.connections) :
                     /\ nodeUpdates' =
                            <<NodeUpdate(nodeId, "running", Undefined),
                              IF r.success /\ ~r.thrown
                              THEN NodeUpdate(nodeId, "completed", r.result)
                              ELSE NodeUpdate(nodeId, "error", ExecutionFailed(r.error))>>
                     /\ invocations' = Invoked(nodeId, r)
                     /\ executed' = Called([nodeId |-> nodeId, via |-> "handleExecute", result |-> r])
              Checked(readinessCheck) == IF ~readinessCheck.ready THEN Refused(readinessCheck) ELSE Run
          IN  Checked(isNodeReadyForExecution(nodeId, workflow.nodes, workflow.connections))
    /\ UNCHANGED <<workflow, executionState, pc, executionOrder, i, finalOutputs, returned,
                   stopCalled, sorted, validated, listener, ui,
                   listeners, received, connectionError>>

NextNode == ExecuteNodeCall \/ HandleExecute

SpecNode == InitNode /\ [][NextNode]_vars

\* ------------------------------------------------ reference definitions
\* The connections both of whose ends are nodes.
NodeEdges(wf) ==
    {<<wf.connections[k].sourceNodeId, wf.connections[k].targetNodeId>> :
        k \in {j \in DOMAIN wf.connections :
                  /\ HasNode(wf.nodes, wf.connections[j].sourceNodeId)
                  /\ HasNode(wf.nodes, wf.connections[j].targetNodeId)}}

RECURSIVE ReachFrom(_, _, _)
\* The ids reachable from the set front along one or more edges.
ReachFrom(edges, front, seen) ==
    LET next == {e[2] : e \in {d \in edges : d[1] \in front}} \ seen
    IN  IF next = {} THEN seen ELSE ReachFrom(edges, next, seen \cup next)

Reaches(wf, a, b) == b \in ReachFrom(NodeEdges(wf), {a}, {})

HasDirectedCycle(wf) == \E k \in DOMAIN wf.nodes : Reaches(wf, wf.nodes[k].id, wf.nodes[k].id)

ValidReferences(wf) ==
    \A k \in DOMAIN wf.connections :
        /\ HasNode(wf.nodes, wf.connections[k].sourceNodeId)
        /\ HasNode(wf.nodes, wf.connections[k].targetNodeId)

\* ----------------------------------------------------- run observations
Last(s) == s[Len(s)]

\* The positions of the onNodeUpdate calls made for a node.
UpdatesFor(nodeId) == {k \in DOMAIN nodeUpdates : nodeUpdates[k].nodeId = nodeId}

CompletedAt(nodeId) ==
    {k \in UpdatesFor(nodeId) : nodeUpdates[k].status = "completed"}

\* The node ids with a connection into nodeId.
Upstream(wf, nodeId) ==
    {wf.connections[k].sourceNodeId :
        k \in {j \in DOMAIN wf.connections : wf.connections[j].targetNodeId = nodeId}}

HasConnection(wf, a, b) ==
    \E k \in DOMAIN wf.connections :
        wf.connections[k].sourceNodeId = a /\ wf.connections[k].targetNodeId = b

HandlerErrors ==
    {"Required input is missing", "Gemini API call failed",
     "No inputs available for output", "No assets provided"}

\* ---------------------------------------------------------------- C1
\* C1: halt-on-error.  Once a node of a full run has been reported `error`,
\* that report is the last onNodeUpdate call of the run: the run has
\* returned success=false with isRunning=false, every node before the
\* failed one in the execution order has been reported `completed`, and no
\* node after it has received any update.
C1_HaltOnError ==
    \A k \in DOMAIN nodeUpdates :
        nodeUpdates[k].status = "error" =>
            LET p == IndexOf(executionOrder, nodeUpdates[k].nodeId)
            IN  /\ k = Len(nodeUpdates)
                /\ pc = "done"
                /\ returned.done /\ ~returned.success
                /\ ~executionState.isRunning
                /\ \A j \in 1..(p - 1) : CompletedAt(executionOrder[j]) # {}
                /\ \A j \in (p + 1)..Len(executionOrder) : UpdatesFor(executionOrder[j]) = {}

\* A chain A -> B -> C whose middle node's handler ran and failed.
C1_Witness ==
    /\ pc = "done"
    /\ Len(executionOrder) = 3
    /\ HasConnection(workflow, executionOrder[1], executionOrder[2])
    /\ HasConnection(workflow, executionOrder[2], executionOrder[3])
    /\ CompletedAt(executionOrder[1]) # {}
    /\ Last(nodeUpdates) = NodeUpdate(executionOrder[2], "error", Undefined)
    /\ \E k \in DOMAIN invocations : invocations[k].nodeId = executionOrder[2]
    /\ UpdatesFor(executionOrder[3]) = {}

\* ---------------------------------------------------------------- C2
\* C2: cancellation stops dispatch.  Once stopExecution has been called
\* during a run, no step of that run issues a `running` update.
C2_StopStopsDispatch ==
    [][stopCalled =>
          ~(/\ Len(nodeUpdates') = Len(nodeUpdates) + 1
            /\ Last(nodeUpdates').status = "running")]_vars

\* ---------------------------------------------------------------- C3
\* C3: stopped is stable.  Once stopExecution has been called during a run,
\* no step of that run changes the execution state, and the run does not
\* return success=true.
C3_StoppedIsStable ==
    [][stopCalled => (executionState' = executionState /\ ~returned'.success)]_vars

\* ---------------------------------------------------------------- C4
\* C4: ordering.  Whenever a node is reported `running`, every node with a
\* connection into it has been reported `completed` earlier in the run.
C4_UpstreamCompletesFirst ==
    \A k \in DOMAIN nodeUpdates :
        nodeUpdates[k].status = "running" =>
            \A a \in Upstream(workflow, nodeUpdates[k].nodeId) :
                \E j \in CompletedAt(a) : j < k

\* A node with two upstream nodes has been dispatched.
C4_Witness ==
    \E k \in DOMAIN nodeUpdates :
        /\ nodeUpdates[k].status = "running"
        /\ Cardinality(Upstream(workflow, nodeUpdates[k].nodeId)) = 2

\* ---------------------------------------------------------------- C5
\* Every handler succeeds on the data a run hands it: typed-in inputs and
\* assets are present, an output node has an input, a generate node has an
\* input or a template, and no handler has reported a failure.
HandlersSucceed ==
    /\ \A k \in DOMAIN workflow.nodes :
          LET node == workflow.nodes[k]
          IN  /\ node.type \in {"userInput", "addAssets"} => ~Falsy(node.result)
              /\ node.type = "output" => Upstream(workflow, node.id) # {}
              /\ node.type = "generate" => (Upstream(workflow, node.id) # {} \/ node.promptTemplate)
    /\ \A k \in DOMAIN executionState.errors : executionState.errors[k].message \notin HandlerErrors

\* C5: full-run completion.  A run on a graph that passes validation and
\* whose handlers all succeed returns success=true with every node id in
\* completedNodes, no failed node, no error, progress 100 and isRunning
\* false.
C5_FullRunCompletes ==
    (pc = "done" /\ validateWorkflow(workflow).isValid /\ HandlersSucceed) =>
        /\ returned.success
        /\ Range(executionState.completedNodes) = Range(NodeIdsOf(workflow.nodes))
        /\ executionState.failedNodes = <<>>
        /\ executionState.errors = <<>>
        /\ executionState.progress = Fraction(100, 1)
        /\ ~executionState.isRunning

\* ---------------------------------------------------------------- C6
\* The value stored under a key of an insertion-ordered object.
ValueAt(entries, key) == entries[CHOOSE k \in DOMAIN entries : entries[k].key = key].value

TitleOf(nodeId) == FindNode(workflow.nodes, nodeId).title

\* C6: data flow.  Every input a handler is given for an upstream node is
\* the result that node was reported `completed` with in this run (upstream
\* nodes sharing a title with another input are left aside).
C6_InputsComeFromThisRun ==
    \A k \in DOMAIN invocations :
        \A n \in DOMAIN invocations[k].sources :
            LET a == invocations[k].sources[n]
            IN  (\A m \in DOMAIN invocations[k].sources :
                    TitleOf(invocations[k].sources[m]) = TitleOf(a) => invocations[k].sources[m] = a)
                => \E j \in CompletedAt(a) :
                      ValueAt(invocations[k].inputs, TitleOf(a)) = nodeUpdates[j].result

\* ---------------------------------------------------------------- C7
\* C7: validation failure is fatal.  When validateWorkflow rejects the
\* graph, the started run has returned success=false with no finalOutputs,
\* has made no onNodeUpdate call, has left isRunning false, and its errors
\* are the validator's errors in order, each with the empty node id.
C7_InvalidWorkflowRunsNothing ==
    (pc # "idle" /\ ~validateWorkflow(workflow).isValid) =>
        LET verrs == validateWorkflow(workflow).errors
        IN  /\ pc = "done"
            /\ nodeUpdates = <<>>
            /\ invocations = <<>>
            /\ ~executionState.isRunning
            /\ Len(executionState.errors) = Len(verrs)
            /\ \A k \in DOMAIN verrs :
                  executionState.errors[k] = WorkflowError("", verrs[k].kind, verrs[k].ids)
            /\ returned = Returned(FALSE, <<>>, executionState.errors)

\* A rejected graph with more than one validator error.
C7_Witness ==
    /\ pc = "done"
    /\ Len(validateWorkflow(workflow).errors) >= 2
    /\ Len(workflow.nodes) >= 2
    /\ Len(executionState.errors) >= 2

\* ---------------------------------------------------------------- C8
CircularReported(validation) ==
    \E k \in DOMAIN validation.errors : validation.errors[k].kind = "circular"

\* C8: cycle detection is exact.  validateWorkflow reports a circular
\* dependency exactly when the connections between nodes of the graph
\* contain a directed cycle.
C8_CycleDetectionExact ==
    validated.done => (CircularReported(validated.value) <=> HasDirectedCycle(workflow))

\* A cycle that no DFS from the first node meets has been reported.
C8_Witness ==
    /\ validated.done
    /\ CircularReported(validated.value)
    /\ Len(workflow.nodes) >= 3
    /\ ~Reaches(workflow, workflow.nodes[1].id, workflow.nodes[1].id)
    /\ \A k \in DOMAIN workflow.nodes :
          Reaches(workflow, workflow.nodes[k].id, workflow.nodes[k].id)
              => ~Reaches(workflow, workflow.nodes[1].id, workflow.nodes[k].id)

\* ---------------------------------------------------------------- C9
\* C9: cycle completeness.  For the graph of a run, if its references are
\* valid and it contains a directed cycle then getTopologicalOrder returns
\* fewer ids than there are nodes, and the started run has ended in failure
\* without an onNodeUpdate call or a handler invocation.
C9_CycleGivesShortOrder ==
    (ValidReferences(workflow) /\ HasDirectedCycle(workflow)) =>
        /\ Len(getTopologicalOrder(workflow.nodes, workflow.connections)) < Len(workflow.nodes)
        /\ pc # "idle" =>
              /\ pc = "done"
              /\ returned.done /\ ~returned.success
              /\ nodeUpdates = <<>>
              /\ invocations = <<>>

\* A run was started on a graph whose cycle is not reachable from the
\* first node.
C9_Witness ==
    /\ pc = "done"
    /\ Len(workflow.nodes) = 3
    /\ ValidReferences(workflow)
    /\ HasDirectedCycle(workflow)
    /\ ~Reaches(workflow, "n1", "n2")
    /\ ~Reaches(workflow, "n1", "n3")
    /\ Upstream(workflow, "n1") = {}

\* --------------------------------------------------------------- C10
\* C10: topological order validity.  For an acyclic graph with valid
\* references getTopologicalOrder returns every node id exactly once, with
\* the source of every connection before its target.
C10_OrderIsTopological ==
    (sorted.done /\ ValidReferences(workflow) /\ ~HasDirectedCycle(workflow)) =>
        /\ Len(sorted.value) = Len(workflow.nodes)
        /\ Range(sorted.value) = Range(NodeIdsOf(workflow.nodes))
        /\ \A k \in DOMAIN workflow.connections :
              IndexOf(sorted.value, workflow.connections[k].sourceNodeId)
                  < IndexOf(sorted.value, workflow.connections[k].targetNodeId)

\* An acyclic graph on all the nodes whose order had to depart from the
\* node list order.
C10_Witness ==
    /\ sorted.done
    /\ ValidReferences(workflow)
    /\ ~HasDirectedCycle(workflow)
    /\ Len(workflow.nodes) = MaxNodes
    /\ Len(workflow.connections) >= 2
    /\ sorted.value # NodeIdsOf(workflow.nodes)

\* --------------------------------------------------------------- C11
\* The connections into nodeId, by position.
Incoming(wf, nodeId) ==
    {k \in DOMAIN wf.connections : wf.connections[k].targetNodeId = nodeId}

\* When the in-degree of an emitted node reached 0: the latest of its
\* incoming connections to be processed, as the pair of the position of the
\* connection's source in the order and the position of the connection.
ReadyAt(wf, order, nodeId) ==
    LET keys == {<<IndexOf(order, wf.connections[k].sourceNodeId), k>> : k \in Incoming(wf, nodeId)}
    IN  CHOOSE m \in keys : \A o \in keys : o[1] < m[1] \/ (o[1] = m[1] /\ o[2] <= m[2])

Earlier(a, b) == a[1] < b[1] \/ (a[1] = b[1] /\ a[2] < b[2])

\* The node ids without an incoming connection, in node-list order.
SeedsOf(wf) ==
    LET ids == NodeIdsOf(wf.nodes)
        Keep(from) == {k \in from..Len(ids) : Incoming(wf, ids[k]) = {}}
        RECURSIVE Pick(_)
        Pick(from) == IF Keep(from) = {} THEN <<>>
                      ELSE LET k == CHOOSE j \in Keep(from) : \A o \in Keep(from) : j <= o
                           IN  <<ids[k]>> \o Pick(k + 1)
    IN  Pick(1)

\* C11: deterministic FIFO tie-break.  The order returned by
\* getTopologicalOrder starts with the nodes of in-degree 0 in node-list
\* order, and every other emitted node comes in the order in which the
\* nodes became ready: by the position in the order of the node whose
\* processing released it, and among those released by the same node by
\* connection order.  The order is a function of the graph alone.
C11_FifoTieBreak ==
    sorted.done =>
        LET order == sorted.value
            seeds == SeedsOf(workflow)
        IN  /\ Len(order) >= Len(seeds)
            /\ SubSeq(order, 1, Len(seeds)) = seeds
            /\ \A p \in (Len(seeds) + 1)..Len(order) :
                  /\ Incoming(workflow, order[p]) # {}
                  /\ ReadyAt(workflow, order, order[p])[1] < p
                  /\ \A q \in (p + 1)..Len(order) :
                        Earlier(ReadyAt(workflow, order, order[p]),
                                ReadyAt(workflow, order, order[q]))

\* Two siblings released by the same node were emitted in connection order,
\* against their order in the node list.
C11_Witness ==
    /\ sorted.done
    /\ Len(sorted.value) = 3
    /\ Len(workflow.nodes) = 3
    /\ Upstream(workflow, sorted.value[2]) = {sorted.value[1]}
    /\ Upstream(workflow, sorted.value[3]) = {sorted.value[1]}
    /\ IndexOf(NodeIdsOf(workflow.nodes), sorted.value[2])
           > IndexOf(NodeIdsOf(workflow.nodes), sorted.value[3])

\* --------------------------------------------------------------- C12
\* The node ids with no connection at either end.
Unconnected(wf) ==
    {wf.nodes[k].id : k \in DOMAIN wf.nodes} \ {id \in IdUniverse : \E a \in IdUniverse :
                                                    HasConnection(wf, a, id) \/ HasConnection(wf, id, a)}

\* More than one node, no cycle, no dangling reference, and a node without
\* connections.
OnlyIsolatedFinding(wf) ==
    /\ Len(wf.nodes) > 1
    /\ ValidReferences(wf)
    /\ ~HasDirectedCycle(wf)
    /\ Unconnected(wf) # {}

\* C12: isolated nodes are a non-fatal warning.  A graph whose only finding
\* is an isolated node passes validateWorkflow, is accepted by
\* canExecuteWorkflow when no run is active, and a run on it gets as far as
\* executing a node.
C12_IsolatedIsNonFatal ==
    (pc = "done" /\ OnlyIsolatedFinding(workflow)) =>
        /\ validateWorkflow(workflow).isValid
        /\ canExecuteWorkflow(workflow, InitialExecutionState).canExecute
        /\ nodeUpdates # <<>>

\* --------------------------------------------------------------- C13
\* The nodes of the graph with a connection into nodeId.
InputNodesOf(wf, nodeId) ==
    {wf.nodes[k] : k \in {j \in DOMAIN wf.nodes : wf.nodes[j].id \in Upstream(wf, nodeId)}}

\* executeNode was called on its own on a node of the graph.
ExecutedNode ==
    executed.done /\ executed.value.via = "executeNode" /\ HasNode(workflow.nodes, executed.value.nodeId)

ReadinessErrors == {"not-executed-yet", "generate-needs-input-or-template", "output-needs-input"}

\* C13: dependency gating.  executeNode on a node with an upstream node
\* whose status is not `completed` returns the not-executed readiness
\* failure and invokes no handler, whatever the upstream node's result
\* field holds.
C13_DependencyGating ==
    (ExecutedNode /\ \E b \in InputNodesOf(workflow, executed.value.nodeId) : b.status # "completed") =>
        /\ ~executed.value.result.success
        /\ ~executed.value.result.invoked
        /\ executed.value.result.error = "not-executed-yet"
        /\ invocations = <<>>

\* --------------------------------------------------------------- C15
\* C15: exact readiness predicate.  A call of executeNode on a node of the
\* graph fails its readiness check, with no handler invoked, exactly when
\* (a) an input node has a status other than `completed` and an undefined
\* result, or (b) the node is a `generate` node with no input node and no
\* prompt template, or (c) the node is an `output` node with no input node;
\* otherwise the handler of the node's type is invoked once with the
\* node's inputs.
C15_ReadinessExact ==
    ExecutedNode =>
        LET node == FindNode(workflow.nodes, executed.value.nodeId)
            ins == InputNodesOf(workflow, node.id)
            a == \E b \in ins : b.status # "completed" /\ b.result = Undefined
            b == node.type = "generate" /\ ins = {} /\ ~node.promptTemplate
            c == node.type = "output" /\ ins = {}
            r == executed.value.result
        IN  /\ (a \/ b \/ c) <=> ~r.invoked
            /\ ~r.invoked => (~r.success /\ r.error \in ReadinessErrors /\ invocations = <<>>)
            /\ r.error = "not-executed-yet" <=> a
            /\ (r.error = "generate-needs-input-or-template") <=> (~a /\ b)
            /\ (r.error = "output-needs-input") <=> (~a /\ c)
            /\ r.invoked => /\ Len(invocations) = 1
                            /\ invocations[1].nodeId = node.id
                            /\ Range(invocations[1].sources) = {n.id : n \in ins}

\* The check failed on a node with two inputs of which one was ready.
C15_Witness ==
    /\ ExecutedNode
    /\ executed.value.result.error = "not-executed-yet"
    /\ \E x, y \in InputNodesOf(workflow, executed.value.nodeId) :
          /\ x.status = "error" /\ x.result # Undefined
          /\ y.status = "idle" /\ y.result = Undefined

\* --------------------------------------------------------------- C14
\* An output node of the graph without a connected input.
OutputWithoutInput(wf, nodeId) ==
    /\ HasNode(wf.nodes, nodeId)
    /\ FindNode(wf.nodes, nodeId).type = "output"
    /\ InputNodesOf(wf, nodeId) = {}

\* C14: a node that fails its readiness check is never put into `running`.
\* For an output node without a connected input, no `running` update is
\* issued, by the node's own Execute button or by a full run, and the
\* execution of the node reports the no-input readiness error.
C14_UnreadyNeverRunning ==
    /\ \A k \in DOMAIN nodeUpdates :
          OutputWithoutInput(workflow, nodeUpdates[k].nodeId) => nodeUpdates[k].status # "running"
    /\ (ExecutedNode /\ OutputWithoutInput(workflow, executed.value.nodeId)) =>
          executed.value.result.error = "output-needs-input"

\* --------------------------------------------------------------- C16
\* The run can still dispatch a node or write the execution state.
RunInFlight == pc \in {"loop", "awaiting"}

\* C16: at most one full run is active.  While a run has not returned,
\* isRunning is true and canExecuteWorkflow rejects a new run on the graph.
C16_OneActiveRun ==
    RunInFlight =>
        /\ executionState.isRunning
        /\ ~canExecuteWorkflow(workflow, executionState).canExecute

\* --------------------------------------------------------------- C17
\* C17: the readiness pre-check.  A click on Execute is rejected exactly
\* when the execution state has isRunning=true, the graph has no node, or
\* validateWorkflow fails, with the matching reason (for a failed
\* validation, the first validator error); a rejected click alerts the
\* reason, leaves the execution state and the run as they were, notifies no
\* subscriber and does not call executeWorkflow; an accepted click calls
\* executeWorkflow.
C17_PreCheck ==
    [][ui' # ui =>
          LET check == ui'.value
              running == executionState.isRunning
              empty == Len(workflow.nodes) = 0
              invalid == ~validateWorkflow(workflow).isValid
          IN  /\ check.canExecute <=> ~(running \/ empty \/ invalid)
              /\ running => check.reason = "Another workflow is currently running"
              /\ (~running /\ empty) => check.reason = "Workflow must contain at least one node"
              /\ (~running /\ ~empty /\ invalid) =>
                     check.reason = validateWorkflow(workflow).errors[1].kind
              /\ ~check.canExecute =>
                     /\ check.alert = check.reason
                     /\ ~check.started
                     /\ executionState' = executionState
                     /\ listener' = listener
                     /\ <<pc, executionOrder, i, returned, nodeUpdates, invocations>>'
                            = <<pc, executionOrder, i, returned, nodeUpdates, invocations>>
              /\ check.canExecute =>
                     /\ check.started
                     /\ pc' # "idle"
                     /\ listener'.calls > listener.calls]_vars

\* A click on Execute during the await of a node was rejected because a run
\* is active.
C17_Witness ==
    /\ ui.done
    /\ ~ui.value.canExecute
    /\ ui.value.reason = "Another workflow is currently running"
    /\ pc = "awaiting"
    /\ executionState.isRunning

\* --------------------------------------------------------------- C20
\* The run has completed, failed, or been stopped.
Terminal == pc = "done" \/ stopCalled

\* C20: reset.  resetExecutionState called in a terminal state leaves
\* completedNodes, failedNodes and errors empty, progress 0, startTime and
\* endTime undefined, isRunning false and currentNodeId null, sends the new
\* state to the subscriber once, and issues no node update.
C20_ResetClears ==
    [][(Terminal /\ ResetExecutionState) =>
          /\ executionState' = [isRunning |-> FALSE, currentNodeId |-> "null",
                                completedNodes |-> <<>>, failedNodes |-> <<>>,
                                progress |-> Fraction(0, 1), errors |-> <<>>,
                                startTime |-> "undefined", endTime |-> "undefined"]
          /\ listener'.calls = listener.calls + 1
          /\ listener'.state = executionState'
          /\ nodeUpdates' = nodeUpdates
          /\ workflow' = workflow]_vars

\* The state was reset after a run that failed at a node.
C20_Witness ==
    /\ pc = "done"
    /\ returned.done /\ ~returned.success /\ returned.errors # <<>>
    /\ \E k \in DOMAIN nodeUpdates : nodeUpdates[k].status = "error"
    /\ executionState = InitialExecutionState
    /\ listener.state = InitialExecutionState
    /\ listener.calls > 0

\* --------------------------------------------------------------- C18
\* The node set `running` at position j has settled before position k.
SettledBetween(j, k) ==
    \E m \in (j + 1)..(k - 1) :
        /\ nodeUpdates[m].nodeId = nodeUpdates[j].nodeId
        /\ nodeUpdates[m].status \in {"completed", "error"}

\* C18: node execution is strictly sequential.  A node is set `running`
\* only after every node set `running` before it has settled to
\* `completed` or `error`, so at most one node is in flight.
C18_Sequential ==
    /\ \A k \in DOMAIN nodeUpdates :
          nodeUpdates[k].status = "running" =>
              \A j \in 1..(k - 1) : nodeUpdates[j].status = "running" => SettledBetween(j, k)
    /\ Cardinality({j \in DOMAIN nodeUpdates :
                       nodeUpdates[j].status = "running" /\ ~SettledBetween(j, Len(nodeUpdates) + 1)})
          <= 1

\* Two sibling branches of one node: the second sibling was set `running`.
C18_Witness ==
    /\ Len(executionOrder) = 3
    /\ Upstream(workflow, executionOrder[2]) = {executionOrder[1]}
    /\ Upstream(workflow, executionOrder[3]) = {executionOrder[1]}
    /\ \E k \in DOMAIN nodeUpdates :
          nodeUpdates[k] = NodeUpdate(executionOrder[3], "running", Undefined)

\* --------------------------------------------------------------- C19
\* An ExecutionResult that was returned: a failure with a message, or a
\* success.
ReturnedResult(r) ==
    /\ ~r.thrown
    /\ r.success => (r.error = "" /\ r.invoked)
    /\ ~r.success => (r.error # "" /\ r.result = Undefined)

\* C19: no exception escapes.  Every outcome of executeNode, for a node of
\* the graph or an unknown id, whether the readiness check fails or the
\* handler throws, is a returned result; and a node failure in a run never
\* makes executeWorkflow reject: the run returns success=false with the
\* node's error, which is also recorded in the execution state.
C19_NoEscape ==
    /\ \A id \in IdUniverse :
          \A r \in executeNode(id, workflow.nodes, workflow.connections) : ReturnedResult(r)
    /\ pc = "done" => returned.done
    /\ \A k \in DOMAIN nodeUpdates :
          nodeUpdates[k].status = "error" =>
              /\ returned.done /\ ~returned.success
              /\ Contains(executionState.failedNodes, nodeUpdates[k].nodeId)
              /\ \E e \in DOMAIN returned.errors :
                    /\ returned.errors[e].nodeId = nodeUpdates[k].nodeId
                    /\ returned.errors[e].message # ""
              /\ executionState.errors = returned.errors

\* A run in which the handler of a node threw, and a graph with an id that
\* is not one of its nodes.
C19_Witness ==
    /\ pc = "done"
    /\ \E e \in DOMAIN returned.errors : returned.errors[e].message \in HandlerErrors
    /\ \E k \in DOMAIN nodeUpdates : nodeUpdates[k].status = "error"
    /\ \E id \in IdUniverse : ~HasNode(workflow.nodes, id)

\* --------------------------------------------------------------- C24
\* The errors of one kind that name one id.
ErrorsNaming(validation, kind, id) ==
    {k \in DOMAIN validation.errors :
        validation.errors[k].kind = kind /\ validation.errors[k].ids = <<id>>}

MissingSources(wf, id) ==
    {k \in DOMAIN wf.connections :
        wf.connections[k].sourceNodeId = id /\ ~HasNode(wf.nodes, id)}

MissingTargets(wf, id) ==
    {k \in DOMAIN wf.connections :
        wf.connections[k].targetNodeId = id /\ ~HasNode(wf.nodes, id)}

DanglingReported(wf, validation) ==
    /\ \A id \in IdUniverse :
          /\ Cardinality(ErrorsNaming(validation, "missing-source", id))
                = Cardinality(MissingSources(wf, id))
          /\ Cardinality(ErrorsNaming(validation, "missing-target", id))
                = Cardinality(MissingTargets(wf, id))
    /\ (\E id \in IdUniverse : MissingSources(wf, id) \cup MissingTargets(wf, id) # {})
          => ~validation.isValid

\* C24: dangling references are rejected.  A call of validateWorkflow
\* leaves the graph as it was and returns, for every connection endpoint
\* that is not the id of a node, one error naming that id (one per
\* missing endpoint, none for an endpoint that is a node), and isValid
\* is false whenever an endpoint is missing.
C24_DanglingRejected ==
    [][(~validated.done /\ validated'.done)
          => (workflow' = workflow /\ DanglingReported(workflow, validated'.value))]_vars

\* A graph with nodes in which one connection has both endpoints missing
\* and another has only its target missing has been validated.
C24_Witness ==
    /\ validated.done
    /\ Len(workflow.nodes) >= 1
    /\ \E j \in DOMAIN workflow.connections :
          /\ ~HasNode(workflow.nodes, workflow.connections[j].sourceNodeId)
          /\ ~HasNode(workflow.nodes, workflow.connections[j].targetNodeId)
    /\ \E j \in DOMAIN workflow.connections :
          /\ HasNode(workflow.nodes, workflow.connections[j].sourceNodeId)
          /\ ~HasNode(workflow.nodes, workflow.connections[j].targetNodeId)
    /\ ~validated.value.isValid

\* --------------------------------------------------------------- C28
\* The ids of path, in this order, form a closed walk of connections
\* without a repeated node.
IsCycleOf(wf, path) ==
    /\ Len(path) > 0
    /\ \A j \in DOMAIN path : \A k \in DOMAIN path : path[j] = path[k] => j = k
    /\ \A j \in DOMAIN path : HasConnection(wf, path[j], path[(j % Len(path)) + 1])

\* C28: the cycle error names the cycle.  When validateWorkflow reports a
\* circular dependency, the path of the error names the nodes of one
\* directed cycle and no other node: each named node has a connection to
\* the next one and the last has a connection back to the first.
C28_CycleErrorNamesCycle ==
    validated.done =>
        \A k \in DOMAIN validated.value.errors :
            validated.value.errors[k].kind = "circular"
                => IsCycleOf(workflow, validated.value.errors[k].ids)

\* --------------------------------------------------------------- C26
\* The onNodeUpdate calls made for a node, in the order they were made.
UpdateTrace(nodeId) == Filter(nodeUpdates, LAMBDA u : u.nodeId = nodeId)

\* The node the run is awaiting.
Awaited(nodeId) == pc = "awaiting" /\ executionOrder[i + 1] = nodeId

ProgressLeq(a, b) == a.num * b.den <= b.num * a.den

ProgressIs(p, num, den) == p.num * den = num * p.den

AllCompleted ==
    \A k \in DOMAIN workflow.nodes :
        Contains(executionState.completedNodes, workflow.nodes[k].id)

\* What holds of progress in a state of a run; outcome is the meaning
\* given to "every node of the graph completed in that run".
ProgressAccounted(everyNodeCompleted) ==
    /\ ProgressLeq(Fraction(0, 1), executionState.progress)
    /\ ProgressLeq(executionState.progress, Fraction(100, 1))
    /\ pc = "awaiting" => ProgressIs(executionState.progress, i * 100, Len(executionOrder))
    /\ returned.done =>
          ((returned.success /\ ProgressIs(executionState.progress, 100, 1))
              <=> everyNodeCompleted)
    /\ (returned.done /\ executionState.failedNodes # <<>>) =>
          ProgressIs(executionState.progress,
                     (IndexOf(executionOrder, Last(executionState.failedNodes)) - 1) * 100,
                     Len(executionOrder))

\* C27 as stated: progress is i/n*100 while node i of n is dispatched, it
\* never decreases and stays within 0..100, a run returns success with
\* progress 100 exactly when every node of the graph completed in it, and
\* after a failure progress is the failing node's i/n*100.
C27_ProgressAsStated ==
    [][ProgressLeq(executionState.progress, executionState'.progress)
          /\ ProgressAccounted(AllCompleted)']_vars

\* C27, for the graphs that have nodes: the same statement, where a run
\* returns success with progress 100 exactly when the graph has at least
\* one node and every node completed in the run.
C27_ProgressAccounting ==
    [][ProgressLeq(executionState.progress, executionState'.progress)
          /\ ProgressAccounted(Len(workflow.nodes) > 0 /\ AllCompleted)']_vars

\* A run of three nodes has failed at its second node with progress 1/3,
\* after passing 0.
C27_Witness ==
    /\ returned.done
    /\ ~returned.success
    /\ Len(executionOrder) = 3
    /\ Len(executionState.completedNodes) = 1
    /\ executionState.failedNodes = <<executionOrder[2]>>
    /\ ProgressIs(executionState.progress, 100, 3)

\* --------------------------------------------------------------- C29
\* The context the handler of an invocation was given: the workflow of a
\* run does not change, so it is the context of the node in the workflow.
ContextOf(nodeId) ==
    buildExecutionContext(FindNode(workflow.nodes, nodeId), workflow.nodes, workflow.connections)

EntryOf(entries, key, value) ==
    \E j \in DOMAIN entries : entries[j].key = key /\ entries[j].value = value

\* inputs and variables hold the same entries, one per distinct input
\* node, valued by that node's result.
ContextAssembled(context) ==
    /\ Range(context.inputs) = Range(context.variables)
    /\ Len(context.inputs) = Cardinality(Range(context.sources))
    /\ Len(context.variables) = Cardinality(Range(context.sources))
    /\ \A id \in Range(context.sources) :
          \E j \in DOMAIN context.inputs :
              context.inputs[j].value = FindNode(workflow.nodes, id).result

\* C29: context assembly.  The context every invoked handler was given
\* has the same keys and values in `inputs` and in `variables`, one entry
\* per input node valued by that node's result, so that a node with k
\* distinct upstream nodes sees k inputs and k variables.
C29_ContextAssembly ==
    \A k \in DOMAIN invocations :
        /\ ContextOf(invocations[k].nodeId).inputs = invocations[k].inputs
        /\ ContextAssembled(ContextOf(invocations[k].nodeId))

\* --------------------------------------------------------------- C23
\* The result a node completed with in this run.
CompletedResult(nodeId) == UpdateTrace(nodeId)[2].result

\* The output nodes that completed in this run under a title.
CompletedOutputs(title) ==
    {k \in DOMAIN executionState.completedNodes :
        /\ FindNode(workflow.nodes, executionState.completedNodes[k]).type = "output"
        /\ FindNode(workflow.nodes, executionState.completedNodes[k]).title = title}

NoDuplicates(s) == \A j \in DOMAIN s : \A k \in DOMAIN s : s[j] = s[k] => j = k

IsPrefix(s, t) == Len(s) <= Len(t) /\ \A k \in DOMAIN s : s[k] = t[k]

StateConsistent ==
    /\ NoDuplicates(executionState.completedNodes)
    /\ NoDuplicates(executionState.failedNodes)
    /\ Range(executionState.completedNodes) \cap Range(executionState.failedNodes) = {}
    /\ IsPrefix(executionState.completedNodes, executionOrder)
    /\ Len(executionState.failedNodes) <= 1

\* The state a run leaves when it returns.
ReturnConsistent ==
    /\ executionState.errors = returned.errors
    /\ \A k \in DOMAIN nodeUpdates :
          nodeUpdates[k].status = "error" =>
              /\ executionState.failedNodes = <<nodeUpdates[k].nodeId>>
              /\ Last(executionState.errors).nodeId = nodeUpdates[k].nodeId

\* C30: execution-state consistency.  In every state completedNodes and
\* failedNodes have no duplicate ids and are disjoint, completedNodes is
\* a prefix of the execution order of the current run and failedNodes has
\* at most one element; when a run returns, the errors of the state are
\* the errors it returns, and if a node failed its id is the only element
\* of failedNodes and the nodeId of the last error.
C30_StateConsistency ==
    [][StateConsistent' /\ ((~returned.done /\ returned'.done) => ReturnConsistent')]_vars

\* --------------------------------------------------------------- C21
\* The states a step writes with updateExecutionState, in order: a call
\* of executeWorkflow that is rejected writes the reset state and then
\* the rejection, a failing node is recorded and then the run is closed,
\* every other step writes once.
Written ==
    IF pc = "idle" /\ pc' = "done"
    THEN <<[executionState' EXCEPT !.isRunning = TRUE, !.errors = <<>>, !.endTime = "undefined"],
           executionState'>>
    ELSE IF pc = "awaiting" /\ pc' = "done"
    THEN <<[executionState' EXCEPT !.isRunning = executionState.isRunning,
                                   !.currentNodeId = executionState.currentNodeId,
                                   !.endTime = executionState.endTime],
           executionState'>>
    ELSE <<executionState'>>

RECURSIVE AfterCalls(_, _)
\* The registrations left after each callback of called has run.
AfterCalls(registered, called) ==
    IF called = <<>> THEN registered
    ELSE AfterCalls(callListener(registered, Head(called)), Tail(called))

RECURSIVE Expected(_, _)
\* For each written state in turn, one call of every callback registered
\* when the state was written, in registration order, with that state.
Expected(states, registered) ==
    IF states = <<>> THEN <<>>
    ELSE [k \in DOMAIN registered |-> [callback |-> registered[k], state |-> Head(states)]]
         \o Expected(Tail(states), AfterCalls(registered, registered))

\* C21: every mutation of the execution state (by a run, by stop, by
\* reset) is followed, within the same step, by one call of every
\* registered subscriber, in registration order, with the state that
\* holds the mutation; no step changes the state without these calls.
C21_NotifyOnMutation ==
    [][(executionState' # executionState \/ received' # <<>>)
          => received' = Expected(Written, listeners)]_vars

\* A step wrote two states with once and log registered: both were
\* called with the first state, once left, log was called with the last.
C21_Witness ==
    /\ Len(received) = 3
    /\ received[1].callback = "once"
    /\ received[2].callback = "log"
    /\ received[3].callback = "log"
    /\ received[1].state # executionState
    /\ received[2].state = received[1].state
    /\ received[3].state = executionState

\* --------------------------------------------------------------- C22
RemoveAt(s, k) == SubSeq(s, 1, k - 1) \o SubSeq(s, k + 1, Len(s))

\* C22: unsubscribing.  A call of an unsubscribe function between two
\* steps removes one registration and leaves every other registration in
\* place, also another registration of the same callback; a callback
\* that is not registered is not called; and an unsubscribe made from
\* inside a callback does not disturb the dispatch in flight: every
\* subscriber registered when a dispatch began receives it.
C22_UnsubscribeExact ==
    [][/\ (received' = <<>> /\ Len(listeners') < Len(listeners))
              => \E k \in DOMAIN listeners : listeners' = RemoveAt(listeners, k)
       /\ \A k \in DOMAIN received' : Contains(listeners, received'[k].callback)
       /\ (executionState' # executionState \/ received' # <<>>)
              => received' = Expected(Written, listeners)]_vars

\* --------------------------------------------------------------- C25
\* C25: edit-time cycle prevention.  Starting from acyclic connections,
\* after every connect, connection removal and node removal the
\* connections are acyclic (a self-loop is a cycle); and a connect whose
\* source is its target, or whose target already reaches its source, is
\* rejected with its error and leaves the workflow as it was.
C25_CanvasStaysAcyclic ==
    [][/\ Acyclic(workflow'.connections)
       /\ \A source \in IdUniverse : \A target \in IdUniverse :
             (/\ onConnect(source, target)
              /\ \/ source = target
                 \/ source \in ReachableIds(workflow.connections, {target}, {}))
                => /\ workflow' = workflow
                   /\ connectionError' = "Connection would create circular dependency"]_vars

\* A connect closing a path of two connections has just been rejected.
C25_Witness ==
    /\ connectionError = "Connection would create circular dependency"
    /\ Len(workflow.connections) >= 2
    /\ \E j \in DOMAIN workflow.connections : \E k \in DOMAIN workflow.connections :
          /\ workflow.connections[j].targetNodeId = workflow.connections[k].sourceNodeId
          /\ workflow.connections[j].sourceNodeId # workflow.connections[k].targetNodeId
          /\ HasNode(workflow.nodes, workflow.connections[j].sourceNodeId)
          /\ HasNode(workflow.nodes, workflow.connections[k].targetNodeId)

====
